---- MODULE Spec2Model ----
(* Selection cuts (cuts.h) and category variables (variables.h) of the      *)
(* 1muNp analysis, evaluated on one interaction record, and the processing *)
(* of one spill by kInfoVar (csv_maker.h).                                  *)
(* Energies are integers in keV (143.425 MeV = 143425), flash times in ns   *)
(* (1.6 us = 1600), vertex coordinates in units of 10 um (210.215 cm =      *)
(* 210215).                                                                 *)
EXTENDS Integers, Sequences, FiniteSets, TLC

VARIABLES inter, op, res, acc, oob, spill, pc, idx, rows, sigs, sels

evalVars == <<inter, op, res, acc, oob>>
spillVars == <<spill, pc, idx, rows, sigs, sels>>
vars == <<inter, op, res, acc, oob, spill, pc, idx, rows, sigs, sels>>

(***************************************************************************)
(* Bounds of the explored inputs.                                          *)
(***************************************************************************)
MaxParticles == 3
MaxGarbage == 1

(* Values an out-of-range read of the count vector may yield. *)
OobValues == 0..MaxGarbage

(***************************************************************************)
(* cuts.h                                                                  *)
(***************************************************************************)

(* Energy of a particle as resolved by final_state_signal. *)
ParticleEnergy_csda(T, p) ==
    IF T = "truth" THEN p.energy_deposit ELSE p.csda_ke

ParticleEnergy(T, p) ==
    IF T = "truth" THEN p.energy_deposit
    ELSE IF p.pid > 1 THEN p.csda_ke ELSE p.calo_ke

final_state_signal_strictless(T, p) ==
    /\ p.is_primary
    /\ \/ (p.pid = 2 /\ ParticleEnergy(T, p) >= 143425)
       \/ (p.pid # 2 /\ p.pid < 4 /\ ParticleEnergy(T, p) >= 25000)
       \/ (p.pid = 4 /\ ParticleEnergy(T, p) >= 50000)

final_state_signal(T, p) ==
    /\ p.is_primary
    /\ \/ (p.pid = 2 /\ ParticleEnergy(T, p) > 143425)
       \/ (p.pid # 2 /\ p.pid < 4 /\ ParticleEnergy(T, p) > 25000)
       \/ (p.pid = 4 /\ ParticleEnergy(T, p) > 50000)

(* The 5-element vector counts(5, 0). *)
ZeroCounts == [t \in 0..4 |-> 0]

RECURSIVE CountFrom(_, _, _, _)
CountFrom(T, ps, k, counts) ==
    IF k > Len(ps) THEN counts
    ELSE IF final_state_signal(T, ps[k]) /\ ps[k].pid \in DOMAIN counts
         THEN CountFrom(T, ps, k + 1, [counts EXCEPT ![ps[k].pid] = @ + 1])
         ELSE CountFrom(T, ps, k + 1, counts)

count_primaries(i) == CountFrom(i.variant, i.particles, 1, ZeroCounts)

(* Buckets of the count vector that count_primaries increments. *)
CountAccess(i) ==
    {i.particles[k].pid : k \in {j \in 1..Len(i.particles) :
                                   final_state_signal(i.variant, i.particles[j])}}

(* The five in-range conditions of topological_1muNp_cut. *)
FiveCounts(c) == c[0] = 0 /\ c[1] = 0 /\ c[2] = 1 /\ c[3] = 0 /\ c[4] >= 1

topology_order(i) ==
    LET counts == count_primaries(i)
    IN ToString(counts[0]) \o "ph" \o ToString(counts[1]) \o "e"
        \o ToString(counts[2]) \o "mu" \o ToString(counts[4]) \o "pi"
        \o ToString(counts[3]) \o "p"

(* The counts written to the stringstream in decimal, each followed by its *)
(* separator.                                                              *)
topology(i) ==
    LET counts == count_primaries(i)
    IN ToString(counts[0]) \o "ph" \o ToString(counts[1]) \o "e"
        \o ToString(counts[2]) \o "mu" \o ToString(counts[3]) \o "pi"
        \o ToString(counts[4]) \o "p"

(* Elements of the vector that topological_1muNp_cut reads, with the       *)
(* short-circuit evaluation of &&.                                         *)
TopologicalAccess(i) ==
    LET c == count_primaries(i)
    IN IF c[0] # 0 THEN {0}
       ELSE IF c[1] # 0 THEN 0..1
       ELSE IF c[2] # 1 THEN 0..2
       ELSE IF c[3] # 0 THEN 0..3
       ELSE IF ~(c[4] >= 1) THEN 0..4
       ELSE 0..5

(* Whether an evaluation of topological_1muNp_cut reads c[5]. *)
ReadsOob(i) == 5 \in TopologicalAccess(i)

(* g is the value the read of c[5], one past the end of the vector, yields. *)
topological_1muNp_cut(i, g) ==
    LET c == count_primaries(i)
    IN c[0] = 0 /\ c[1] = 0 /\ c[2] = 1 /\ c[3] = 0 /\ c[4] >= 1 /\ g = 0

InBox_closed(v) ==
    v[1] >= 210215 /\ v[2] >= 60000 /\ (v[3] >= 290000 /\ v[3] <= 390000)

InBox(v) == v[1] > 210215 /\ v[2] > 60000 /\ (v[3] > 290000 /\ v[3] < 390000)

fiducial_cut(i) == i.is_fiducial /\ ~InBox(i.vertex)

containment_cut(i) == i.is_contained

matched(obj) == Len(obj.match_ids) > 0

(* A flash time is a record: nan tells whether it is NaN, val is its value *)
(* otherwise.  Every comparison with a NaN is false.                       *)
NaN == [nan |-> TRUE, val |-> 0]
Time(n) == [nan |-> FALSE, val |-> n]
IsNaN(t) == t.nan
Geq(t, n) == ~t.nan /\ t.val >= n
Leq(t, n) == ~t.nan /\ t.val <= n

valid_flashmatch(i) == ~IsNaN(i.flash_time) /\ i.is_flash_matched

flash_cut_bnb_open(i) ==
    IF ~valid_flashmatch(i) THEN FALSE
    ELSE Geq(i.flash_time, 0) /\ ~Geq(i.flash_time, 1600)

flash_cut_bnb(i) ==
    IF ~valid_flashmatch(i) THEN FALSE
    ELSE Geq(i.flash_time, 0) /\ Leq(i.flash_time, 1600)

flash_cut_numi(i) ==
    IF ~valid_flashmatch(i) THEN FALSE
    ELSE Geq(i.flash_time, 0) /\ Leq(i.flash_time, 9600)

all_1muNp_cut_bnb(i, g) ==
    topological_1muNp_cut(i, g) /\ fiducial_cut(i) /\ containment_cut(i)
        /\ flash_cut_bnb(i)

all_1muNp_cut(i, g) ==
    topological_1muNp_cut(i, g) /\ fiducial_cut(i) /\ containment_cut(i)
        /\ flash_cut_numi(i)

neutrino(i) == i.nu_id > -1

cosmic(i) == i.nu_id = -1

signal_1muNp(i, g) == topological_1muNp_cut(i, g) /\ neutrino(i)

other_nu_1muNp(i, g) == ~topological_1muNp_cut(i, g) /\ neutrino(i)

(***************************************************************************)
(* variables.h                                                             *)
(***************************************************************************)

category_rawflag(i, g1, g2) ==
    IF signal_1muNp(i, g1)
    THEN IF i.is_fiducial /\ containment_cut(i) THEN 0 ELSE 1
    ELSE IF other_nu_1muNp(i, g2) THEN 2 ELSE 3

(* g1 is read by the call of signal_1muNp, g2 by that of other_nu_1muNp. *)
category(i, g1, g2) ==
    IF signal_1muNp(i, g1)
    THEN IF fiducial_cut(i) /\ containment_cut(i) THEN 0 ELSE 1
    ELSE IF other_nu_1muNp(i, g2) THEN 2 ELSE 3

CountBranch_nomerge(i, counts) ==
    IF counts[3] = 0 /\ counts[4] = 1 /\ i.is_contained /\ i.is_fiducial THEN 2
    ELSE IF counts[3] = 0 /\ counts[4] = 1 THEN 7
    ELSE IF counts[3] = 0 /\ counts[4] = 0 THEN 4
    ELSE IF counts[3] = 1 /\ counts[4] = 1 THEN 4
    ELSE IF i.current_type = 0 THEN 4
    ELSE 6

(* The branch taken when counts[0] == 0, counts[1] == 0 and counts[2] == 1. *)
CountBranch(i, counts) ==
    IF counts[3] = 0 /\ counts[4] = 1 /\ i.is_contained /\ i.is_fiducial THEN 2
    ELSE IF counts[3] = 0 /\ counts[4] = 1 THEN 7
    ELSE IF counts[3] = 0 /\ counts[4] = 0 THEN 4
    ELSE IF counts[3] = 0 /\ counts[4] > 1 /\ i.is_contained /\ i.is_fiducial THEN 2
    ELSE IF counts[3] = 0 /\ counts[4] > 1 THEN 7
    ELSE IF counts[3] = 1 /\ counts[4] = 1 THEN 4
    ELSE IF i.current_type = 0 THEN 4
    ELSE 6

NeutrinoBranch_nc(i) ==
    LET counts == count_primaries(i)
    IN IF counts[0] = 0 /\ counts[1] = 0 /\ counts[2] = 1
       THEN CountBranch(i, counts)
       ELSE IF i.current_type = 0 THEN 4
       ELSE IF i.current_type = 1 THEN 6
       ELSE 6

(* The body of if(interaction.nu_id >= 0). *)
NeutrinoBranch(i) ==
    LET counts == count_primaries(i)
    IN IF counts[0] = 0 /\ counts[1] = 0 /\ counts[2] = 1
       THEN CountBranch(i, counts)
       ELSE IF i.current_type = 0 THEN 4
       ELSE IF i.current_type = 1 THEN 5
       ELSE 6

category_topology_cosmic(i) ==
    IF i.nu_id >= -1 THEN NeutrinoBranch(i) ELSE 6

category_topology(i) ==
    IF i.nu_id >= 0 THEN NeutrinoBranch(i) ELSE 6

Abs(n) == IF n < 0 THEN -n ELSE n

category_interaction_mode_dis(i) ==
    IF i.nu_id > -1
    THEN IF i.current_type = 0
         THEN IF Abs(i.pdg_code) = 14
              THEN IF i.interaction_mode = 0 THEN 0
                   ELSE IF i.interaction_mode = 1 THEN 1
                   ELSE IF i.interaction_mode = 2 THEN 2
                   ELSE IF i.interaction_mode = 10 THEN 3
                   ELSE IF i.interaction_mode = 3 THEN 4
                   ELSE 8
              ELSE 5
         ELSE 6
    ELSE 7

category_interaction_mode(i) ==
    IF i.nu_id > -1
    THEN IF i.current_type = 0
         THEN IF Abs(i.pdg_code) = 14
              THEN IF i.interaction_mode = 0 THEN 0
                   ELSE IF i.interaction_mode = 1 THEN 1
                   ELSE IF i.interaction_mode = 10 THEN 2
                   ELSE IF i.interaction_mode = 2 THEN 3
                   ELSE IF i.interaction_mode = 3 THEN 4
                   ELSE 8
              ELSE 5
         ELSE 6
    ELSE 7

(* Rest masses in keV, rounded down (105.6583745 and 139.57039 MeV). *)
MUON_MASS == 105658
PION_MASS == 139570

VisibleTerm_signal(T, p) ==
    IF final_state_signal(T, p)
    THEN (IF T = "truth" THEN p.energy_deposit
          ELSE IF p.pid < 2 THEN p.calo_ke ELSE p.csda_ke)
         + (IF p.pid = 2 THEN MUON_MASS
            ELSE IF p.pid = 3 THEN PION_MASS ELSE 0)
    ELSE 0

(* What one particle adds to the energy in the loop of visible_energy. *)
VisibleTerm(T, p) ==
    IF p.is_primary
    THEN (IF T = "truth" THEN p.energy_deposit
          ELSE IF p.pid < 2 THEN p.calo_ke ELSE p.csda_ke)
         + (IF p.pid = 2 THEN MUON_MASS
            ELSE IF p.pid = 3 THEN PION_MASS ELSE 0)
    ELSE 0

RECURSIVE EnergyFrom(_, _, _, _)
EnergyFrom(T, ps, k, energy) ==
    IF k > Len(ps) THEN energy
    ELSE EnergyFrom(T, ps, k + 1, energy + VisibleTerm(T, ps[k]))

visible_energy(i) == EnergyFrom(i.variant, i.particles, 1, 0)

(***************************************************************************)
(* Input records.                                                          *)
(***************************************************************************)

(* A particle of type pid whose kinetic energy is e in both variants; the  *)
(* energy field that the type does not select holds 0.                     *)
Particle(pid, prim, e) ==
    [pid |-> pid, is_primary |-> prim,
     calo_ke |-> IF pid < 2 THEN e ELSE 0,
     csda_ke |-> IF pid > 1 THEN e ELSE 0,
     energy_deposit |-> e]

ListKinds ==
    { Particle(0, TRUE, 30000), Particle(1, TRUE, 30000),
      Particle(2, TRUE, 200000), Particle(3, TRUE, 30000),
      Particle(4, TRUE, 60000) }

ParticleLists == UNION {[1..n -> ListKinds] : n \in 0..MaxParticles}

ThresholdEnergies == {25000, 25001, 50000, 50001, 143425, 143426}

AllParticles ==
    [pid : 0..5, is_primary : BOOLEAN, calo_ke : ThresholdEnergies,
     csda_ke : ThresholdEnergies, energy_deposit : ThresholdEnergies]

Origin == <<0, 0, 0>>
BoxInside == <<210216, 60001, 300000>>
Vertices ==
    { Origin, BoxInside, <<210215, 60001, 300000>>, <<210216, 60000, 300000>>,
      <<210216, 60001, 290000>>, <<210216, 60001, 390000>> }

FlashTimes == {NaN} \cup {Time(n) : n \in {-1, 0, 1000, 1600, 1601, 9600, 9601}}

(* One primary muon (200 MeV) and two primary protons (60 and 90 MeV). *)
ScenarioParticles ==
    << Particle(2, TRUE, 200000), Particle(4, TRUE, 60000),
       Particle(4, TRUE, 90000) >>

Scenario ==
    [variant |-> "reco", particles |-> ScenarioParticles, vertex |-> Origin,
     is_fiducial |-> TRUE, is_contained |-> TRUE, flash_time |-> Time(1000),
     is_flash_matched |-> TRUE, nu_id |-> 0, current_type |-> 0,
     pdg_code |-> 14, interaction_mode |-> 0, match_ids |-> <<>>]

(* The flags the categories test, with the vertex at the origin, and the   *)
(* fiducial contained CC neutrino also inside the exclusion box.           *)
CategoryFlags ==
    { x \in [f : BOOLEAN, c : BOOLEAN, v : {Origin, BoxInside}, n : {-1, 0},
             ct : {-1, 0, 1}] :
        x.v = Origin \/ (x.f /\ x.c /\ x.n = 0 /\ x.ct = 0) }

(* Particle lists of every topology, with the flags the categories test. *)
TopologyInteractions ==
    { [Scenario EXCEPT !.particles = ps, !.is_fiducial = x.f,
                       !.is_contained = x.c, !.vertex = x.v, !.nu_id = x.n,
                       !.current_type = x.ct] :
        ps \in ParticleLists, x \in CategoryFlags }

(* A single particle with every type, flag and threshold energy. *)
ParticleInteractions ==
    { [Scenario EXCEPT !.variant = T, !.particles = <<p>>] :
        T \in {"truth", "reco"}, p \in AllParticles }

(* One primary muon, one primary pion and one primary proton. *)
PionParticles ==
    << Particle(2, TRUE, 200000), Particle(3, TRUE, 30000),
       Particle(4, TRUE, 60000) >>

(* A 1muNp and a non-1muNp particle list with every geometry and flash     *)
(* setting.                                                                *)
GeometryInteractions ==
    { [Scenario EXCEPT !.variant = T, !.particles = ps, !.is_fiducial = f,
                       !.is_contained = c, !.vertex = v,
                       !.is_flash_matched = fm, !.flash_time = ft,
                       !.nu_id = n] :
        T \in {"truth", "reco"}, ps \in {ScenarioParticles, PionParticles},
        f \in BOOLEAN, c \in BOOLEAN, v \in Vertices,
        fm \in BOOLEAN, ft \in FlashTimes, n \in {-1, 0} }

(* The scenario's particles with every generator truth setting. *)
ModeInteractions ==
    { [Scenario EXCEPT !.nu_id = n, !.current_type = ct, !.pdg_code = pdg,
                       !.interaction_mode = m] :
        n \in {-2, -1, 0, 1}, ct \in {-1, 0, 1}, pdg \in {14, -14, 12, -12},
        m \in {0, 1, 2, 3, 4, 10} }

(* Particles whose three energy fields differ: an electron, a non-primary  *)
(* muon, a primary muon below threshold, a pion and a particle of type     *)
(* Other.                                                                  *)
EnergyKinds ==
    { [pid |-> 1, is_primary |-> TRUE, calo_ke |-> 30000, csda_ke |-> 7,
       energy_deposit |-> 31000],
      [pid |-> 2, is_primary |-> FALSE, calo_ke |-> 5, csda_ke |-> 200000,
       energy_deposit |-> 201000],
      [pid |-> 2, is_primary |-> TRUE, calo_ke |-> 6, csda_ke |-> 100000,
       energy_deposit |-> 101000],
      [pid |-> 3, is_primary |-> TRUE, calo_ke |-> 8, csda_ke |-> 40000,
       energy_deposit |-> 41000],
      [pid |-> 5, is_primary |-> TRUE, calo_ke |-> 9, csda_ke |-> 70000,
       energy_deposit |-> 71000] }

(* Lists of such particles in both variants. *)
EnergyInteractions ==
    { [Scenario EXCEPT !.variant = T, !.particles = ps] :
        T \in {"truth", "reco"},
        ps \in UNION {[1..n -> EnergyKinds] : n \in 0..MaxParticles} }

Interactions ==
    TopologyInteractions \cup ParticleInteractions \cup GeometryInteractions
        \cup ModeInteractions \cup EnergyInteractions

(***************************************************************************)
(* One evaluation of one cut or variable on the interaction.               *)
(*   op   the function evaluated ("none" before the evaluation) and, for   *)
(*        a particle-level function, the index of the particle             *)
(*   res  the value returned                                               *)
(*   acc  the indices of the count vector the evaluation read or wrote     *)
(*   oob  the values its reads past the end of the count vector yielded    *)
(* The variables of the spill processing keep their idle values.           *)
(***************************************************************************)
Init ==
    /\ inter \in Interactions
    /\ op = [name |-> "none", arg |-> 0]
    /\ res = 0
    /\ acc = {}
    /\ oob = <<>>
    /\ spill = [dlp_true |-> <<>>, dlp |-> <<>>]
    /\ pc = "idle"
    /\ idx = 0
    /\ rows = <<>>
    /\ sigs = <<>>
    /\ sels = <<>>

(* Accesses and out-of-range values of one call of topological_1muNp_cut. *)
TopCallAcc(i) == CountAccess(i) \cup TopologicalAccess(i)
TopCallOob(i, g) == IF ReadsOob(i) THEN <<g>> ELSE <<>>

FinalStateSignal(k) ==
    /\ op.name = "none"
    /\ k \in 1..Len(inter.particles)
    /\ op' = [name |-> "final_state_signal", arg |-> k]
    /\ res' = final_state_signal(inter.variant, inter.particles[k])
    /\ UNCHANGED <<inter, acc, oob>>
    /\ UNCHANGED spillVars

CountPrimaries ==
    /\ op.name = "none"
    /\ op' = [name |-> "count_primaries", arg |-> 0]
    /\ res' = count_primaries(inter)
    /\ acc' = CountAccess(inter)
    /\ UNCHANGED <<inter, oob>>
    /\ UNCHANGED spillVars

Topological1muNpCut(g) ==
    /\ op.name = "none"
    /\ op' = [name |-> "topological_1muNp_cut", arg |-> 0]
    /\ res' = topological_1muNp_cut(inter, g)
    /\ acc' = TopCallAcc(inter)
    /\ oob' = TopCallOob(inter, g)
    /\ UNCHANGED inter
    /\ UNCHANGED spillVars

FiducialCut ==
    /\ op.name = "none"
    /\ op' = [name |-> "fiducial_cut", arg |-> 0]
    /\ res' = fiducial_cut(inter)
    /\ UNCHANGED <<inter, acc, oob>>
    /\ UNCHANGED spillVars

ContainmentCut ==
    /\ op.name = "none"
    /\ op' = [name |-> "containment_cut", arg |-> 0]
    /\ res' = containment_cut(inter)
    /\ UNCHANGED <<inter, acc, oob>>
    /\ UNCHANGED spillVars

FlashCutBnb ==
    /\ op.name = "none"
    /\ op' = [name |-> "flash_cut_bnb", arg |-> 0]
    /\ res' = flash_cut_bnb(inter)
    /\ UNCHANGED <<inter, acc, oob>>
    /\ UNCHANGED spillVars

FlashCutNumi ==
    /\ op.name = "none"
    /\ op' = [name |-> "flash_cut_numi", arg |-> 0]
    /\ res' = flash_cut_numi(inter)
    /\ UNCHANGED <<inter, acc, oob>>
    /\ UNCHANGED spillVars

All1muNpCut(g) ==
    /\ op.name = "none"
    /\ op' = [name |-> "all_1muNp_cut", arg |-> 0]
    /\ res' = all_1muNp_cut(inter, g)
    /\ acc' = TopCallAcc(inter)
    /\ oob' = TopCallOob(inter, g)
    /\ UNCHANGED inter
    /\ UNCHANGED spillVars

Signal1muNp(g) ==
    /\ op.name = "none"
    /\ op' = [name |-> "signal_1muNp", arg |-> 0]
    /\ res' = signal_1muNp(inter, g)
    /\ acc' = TopCallAcc(inter)
    /\ oob' = TopCallOob(inter, g)
    /\ UNCHANGED inter
    /\ UNCHANGED spillVars

OtherNu1muNp(g) ==
    /\ op.name = "none"
    /\ op' = [name |-> "other_nu_1muNp", arg |-> 0]
    /\ res' = other_nu_1muNp(inter, g)
    /\ acc' = TopCallAcc(inter)
    /\ oob' = TopCallOob(inter, g)
    /\ UNCHANGED inter
    /\ UNCHANGED spillVars

(* category calls signal_1muNp and, when that fails, other_nu_1muNp; each  *)
(* call counts the primaries anew and reads the vector on its own.         *)
Category(g1, g2) ==
    /\ op.name = "none"
    /\ op' = [name |-> "category", arg |-> 0]
    /\ res' = category(inter, g1, g2)
    /\ acc' = TopCallAcc(inter)
    /\ oob' = IF signal_1muNp(inter, g1) THEN TopCallOob(inter, g1)
              ELSE TopCallOob(inter, g1) \o TopCallOob(inter, g2)
    /\ UNCHANGED inter
    /\ UNCHANGED spillVars

CategoryTopology ==
    /\ op.name = "none"
    /\ op' = [name |-> "category_topology", arg |-> 0]
    /\ res' = category_topology(inter)
    /\ acc' = IF inter.nu_id >= 0 THEN CountAccess(inter) \cup 0..4 ELSE {}
    /\ UNCHANGED <<inter, oob>>
    /\ UNCHANGED spillVars

CategoryInteractionMode ==
    /\ op.name = "none"
    /\ op' = [name |-> "category_interaction_mode", arg |-> 0]
    /\ res' = category_interaction_mode(inter)
    /\ UNCHANGED <<inter, acc, oob>>
    /\ UNCHANGED spillVars

Topology ==
    /\ op.name = "none"
    /\ op' = [name |-> "topology", arg |-> 0]
    /\ res' = topology(inter)
    /\ acc' = CountAccess(inter) \cup 0..4
    /\ UNCHANGED <<inter, oob>>
    /\ UNCHANGED spillVars

VisibleEnergy ==
    /\ op.name = "none"
    /\ op' = [name |-> "visible_energy", arg |-> 0]
    /\ res' = visible_energy(inter)
    /\ UNCHANGED <<inter, acc, oob>>
    /\ UNCHANGED spillVars

Next ==
    \/ \E k \in 1..Len(inter.particles) : FinalStateSignal(k)
    \/ CountPrimaries
    \/ \E g \in OobValues : Topological1muNpCut(g)
    \/ FiducialCut
    \/ ContainmentCut
    \/ FlashCutBnb
    \/ FlashCutNumi
    \/ \E g \in OobValues : All1muNpCut(g)
    \/ \E g \in OobValues : Signal1muNp(g)
    \/ \E g \in OobValues : OtherNu1muNp(g)
    \/ \E g1 \in OobValues, g2 \in OobValues : Category(g1, g2)
    \/ CategoryTopology
    \/ CategoryInteractionMode
    \/ Topology
    \/ VisibleEnergy

Spec == Init /\ [][Next]_vars

(***************************************************************************)
(* csv_maker.h: kInfoVar processes one spill.                              *)
(*   spill  the truth (dlp_true) and reconstructed (dlp) interactions      *)
(*   pc     the loop being run: "truth", then "reco", then "done"          *)
(*   idx    the position of the running loop (from 1)                      *)
(*   rows   the rows written to the output, in order; a row is its tag and *)
(*          the indices (from 0) of the pair handed to write_pair          *)
(*   sigs   for each truth interaction visited, whether it is a neutrino   *)
(*          and its category is 0                                          *)
(*   sels   for each reconstructed interaction visited, the value of       *)
(*          all_1muNp_cut                                                  *)
(***************************************************************************)
MaxSpill == 2

TruthKinds ==
    LET t == [Scenario EXCEPT !.variant = "truth"]
    IN { [t EXCEPT !.match_ids = <<0>>],
         [t EXCEPT !.match_ids = <<1, 0>>],
         t,
         [t EXCEPT !.nu_id = -1, !.match_ids = <<0>>],
         [t EXCEPT !.is_contained = FALSE, !.match_ids = <<0>>] }

RecoKinds ==
    { [Scenario EXCEPT !.match_ids = <<1, 0>>],
      Scenario,
      [Scenario EXCEPT !.flash_time = Time(9601), !.match_ids = <<0>>] }

Spills ==
    [dlp_true : UNION {[1..n -> TruthKinds] : n \in 0..MaxSpill},
     dlp : UNION {[1..n -> RecoKinds] : n \in 0..MaxSpill}]

SpillInit ==
    /\ inter = Scenario
    /\ op = [name |-> "none", arg |-> 0]
    /\ res = 0
    /\ acc = {}
    /\ oob = <<>>
    /\ spill \in Spills
    /\ pc = "truth"
    /\ idx = 1
    /\ rows = <<>>
    /\ sigs = <<>>
    /\ sels = <<>>

SignalRow_last(t, i) ==
    [tag |-> "SIGNAL", truth |-> t - 1, reco |-> i.match_ids[Len(i.match_ids)]]

(* The row of the truth interaction i at position t, paired with           *)
(* sr->dlp[i.match_ids[0]]; the index is not compared with the size of dlp. *)
SignalRow(t, i) ==
    [tag |-> "SIGNAL", truth |-> t - 1, reco |-> i.match_ids[1]]

(* The row of the reconstructed interaction i at position r, paired with   *)
(* sr->dlp_true[i.match_ids[0]].                                           *)
SelectedRow(r, i) ==
    [tag |-> "SELECTED", truth |-> i.match_ids[1], reco |-> r - 1]

(* One iteration of the loop over sr->dlp_true. *)
TruthStep(g1, g2) ==
    /\ pc = "truth"
    /\ idx <= Len(spill.dlp_true)
    /\ LET i == spill.dlp_true[idx]
           cat == category(i, g1, g2)
       IN /\ sigs' = Append(sigs, neutrino(i) /\ cat = 0)
          /\ rows' = IF neutrino(i) /\ cat = 0 /\ matched(i)
                     THEN Append(rows, SignalRow(idx, i))
                     ELSE rows
    /\ idx' = idx + 1
    /\ UNCHANGED <<spill, pc, sels>>
    /\ UNCHANGED evalVars

(* The loop over sr->dlp_true ends and the loop over sr->dlp starts. *)
TruthEnd ==
    /\ pc = "truth"
    /\ idx > Len(spill.dlp_true)
    /\ pc' = "reco"
    /\ idx' = 1
    /\ UNCHANGED <<spill, rows, sigs, sels>>
    /\ UNCHANGED evalVars

(* One iteration of the loop over sr->dlp. *)
RecoStep(g) ==
    /\ pc = "reco"
    /\ idx <= Len(spill.dlp)
    /\ LET i == spill.dlp[idx]
           sel == all_1muNp_cut(i, g)
       IN /\ sels' = Append(sels, sel)
          /\ rows' = IF sel /\ matched(i)
                     THEN Append(rows, SelectedRow(idx, i))
                     ELSE rows
    /\ idx' = idx + 1
    /\ UNCHANGED <<spill, pc, sigs>>
    /\ UNCHANGED evalVars

(* The loop over sr->dlp ends and kInfoVar returns. *)
RecoEnd ==
    /\ pc = "reco"
    /\ idx > Len(spill.dlp)
    /\ pc' = "done"
    /\ UNCHANGED <<spill, idx, rows, sigs, sels>>
    /\ UNCHANGED evalVars

SpillNext ==
    \/ \E g1 \in OobValues, g2 \in OobValues : TruthStep(g1, g2)
    \/ TruthEnd
    \/ \E g \in OobValues : RecoStep(g)
    \/ RecoEnd

SpillSpec == SpillInit /\ [][SpillNext]_vars

(***************************************************************************)
(* Properties.                                                             *)
(***************************************************************************)

Counts == count_primaries(inter)

(* The result of the call of topological_1muNp_cut that the evaluation     *)
(* made first: false when it stopped before the read past the end.         *)
InCallTopological == Len(oob) >= 1 /\ topological_1muNp_cut(inter, oob[1])

(* C1: category returns one of 0, 1, 2, 3, and when it returns 0 its call  *)
(* of signal_1muNp returned true (the five counts are those of 1muNp and   *)
(* nu_id > -1) and fiducial_cut and containment_cut hold.                  *)
C1_CategoryTotalSignal ==
    op.name = "category" =>
        /\ res \in {0, 1, 2, 3}
        /\ res = 0 =>
            /\ InCallTopological /\ neutrino(inter)
            /\ FiveCounts(Counts) /\ inter.nu_id > -1
            /\ fiducial_cut(inter)
            /\ containment_cut(inter)

C1_Witness ==
    /\ op.name = "category" /\ res = 0
    /\ Len(inter.particles) = 3 /\ inter.variant = "truth"

(* The sub-cuts of all_1muNp_cut that fail in the evaluation. *)
FailingSubCuts ==
    (IF InCallTopological THEN {} ELSE {"topological"})
        \cup (IF fiducial_cut(inter) THEN {} ELSE {"fiducial"})
        \cup (IF containment_cut(inter) THEN {} ELSE {"containment"})
        \cup (IF flash_cut_numi(inter) THEN {} ELSE {"flash"})

C3_TopologicalIffCounts ==
    op.name = "topological_1muNp_cut" => (res = FiveCounts(Counts))

BooleanOps ==
    { "topological_1muNp_cut", "all_1muNp_cut", "signal_1muNp",
      "other_nu_1muNp", "fiducial_cut", "containment_cut", "flash_cut_bnb",
      "flash_cut_numi", "final_state_signal" }

(* C4: every evaluation accesses only the buckets 0..4 of the count vector *)
(* and every cut yields a boolean.                                         *)
C4_AccessInRange ==
    /\ acc \subseteq 0..4
    /\ op.name \in BooleanOps => res \in BOOLEAN

C6_Scenario ==
    inter = Scenario =>
        /\ op.name = "topological_1muNp_cut" => res = TRUE
        /\ op.name = "category" => res = 0
        /\ op.name = "category_topology" => res = 2
        /\ op.name = "category_interaction_mode" => res = 0
        /\ op.name = "flash_cut_numi" => res = TRUE
        /\ op.name = "all_1muNp_cut" => res = TRUE

(* C7: category is 0 for a 1muNp neutrino interaction passing fiducial_cut *)
(* and containment_cut, 1 for one failing either, 2 for any other neutrino *)
(* interaction, and 3 exactly when nu_id <= -1.                            *)
C7_CategoryPriority ==
    op.name = "category" =>
        LET sig == FiveCounts(Counts) /\ neutrino(inter)
            oth == ~FiveCounts(Counts) /\ neutrino(inter)
            geo == fiducial_cut(inter) /\ containment_cut(inter)
        IN /\ (sig /\ geo) => res = 0
           /\ (sig /\ ~geo) => res = 1
           /\ (~sig /\ oth) => res = 2
           /\ (res = 3) = (inter.nu_id <= -1)

(* C8: with nu_id >= 0, no photon, no electron and one muon, the label     *)
(* category_topology is 2 (contained and fiducial) or 7 for 0 pion and 1   *)
(* or more protons, 4 for 0 pion and 0 proton, 4 for 1 pion and 1 proton,  *)
(* and otherwise 4 for CC and the default 6 for any other current_type.    *)
C8_TopologyByCounts ==
    (/\ op.name = "category_topology" /\ inter.nu_id >= 0
     /\ Counts[0] = 0 /\ Counts[1] = 0 /\ Counts[2] = 1) =>
        res = IF Counts[3] = 0 /\ Counts[4] >= 1
              THEN (IF inter.is_contained /\ inter.is_fiducial THEN 2 ELSE 7)
              ELSE IF Counts[3] = 0 /\ Counts[4] = 0 THEN 4
              ELSE IF Counts[3] = 1 /\ Counts[4] = 1 THEN 4
              ELSE IF inter.current_type = 0 THEN 4
              ELSE 6

C8_Witness ==
    /\ op.name = "category_topology" /\ inter.nu_id >= 0 /\ res = 2
    /\ Counts[2] = 1 /\ Counts[3] = 0 /\ Counts[4] = 2
    /\ inter.vertex = BoxInside

(* C9: category_topology returns one of 2, 4, 5, 6, 7 and returns 6 for    *)
(* every interaction with nu_id < 0.                                       *)
C9_TopologyRange ==
    op.name = "category_topology" =>
        /\ res \in {2, 4, 5, 6, 7}
        /\ inter.nu_id < 0 => res = 6

C9_Witness ==
    /\ op.name = "category_topology" /\ inter.nu_id < 0 /\ res = 6
    /\ FiveCounts(Counts) /\ inter.current_type = 0
    /\ inter.is_contained /\ inter.is_fiducial

(* C10: with nu_id >= 0 and counts that do not have photon == 0,           *)
(* electron == 0 and muon == 1, category_topology is 4 for CC and 5 for    *)
(* NC, whatever the other counts and flags.                                *)
C10_TopologyPreconditionFails ==
    (/\ op.name = "category_topology" /\ inter.nu_id >= 0
     /\ ~(Counts[0] = 0 /\ Counts[1] = 0 /\ Counts[2] = 1)) =>
        /\ inter.current_type = 0 => res = 4
        /\ inter.current_type = 1 => res = 5

C10_Witness ==
    /\ op.name = "category_topology" /\ inter.nu_id >= 0 /\ res = 5
    /\ inter.current_type = 1 /\ Counts[2] = 2 /\ Counts[4] = 1
    /\ inter.is_contained /\ inter.is_fiducial

(* C11: category_interaction_mode returns one of 0..8; it is 7 exactly     *)
(* when nu_id <= -1; for nu_id > -1 it maps, for CC with |pdg_code| = 14,  *)
(* the modes 0, 1, 10, 2, 3 to 0, 1, 2, 3, 4 and every other mode to 8, is *)
(* 5 for CC of another flavor and 6 when current_type is not CC.           *)
C11_InteractionMode ==
    op.name = "category_interaction_mode" =>
        /\ res \in 0..8
        /\ (res = 7) = (inter.nu_id <= -1)
        /\ (inter.nu_id > -1 /\ inter.current_type = 0
                /\ inter.pdg_code \in {14, -14}) =>
            res = CASE inter.interaction_mode = 0 -> 0
                    [] inter.interaction_mode = 1 -> 1
                    [] inter.interaction_mode = 10 -> 2
                    [] inter.interaction_mode = 2 -> 3
                    [] inter.interaction_mode = 3 -> 4
                    [] OTHER -> 8
        /\ (inter.nu_id > -1 /\ inter.current_type = 0
                /\ inter.pdg_code \notin {14, -14}) => res = 5
        /\ (inter.nu_id > -1 /\ inter.current_type # 0) => res = 6

C11_Witness ==
    /\ op.name = "category_interaction_mode" /\ res = 2
    /\ inter.interaction_mode = 10 /\ inter.pdg_code = -14
    /\ inter.nu_id = 1

(* The flash cut of the claim for a window w. *)
FlashPasses(i, w) ==
    /\ i.is_flash_matched
    /\ ~i.flash_time.nan
    /\ 0 <= i.flash_time.val /\ i.flash_time.val <= w

(* C14: a flash cut passes iff the interaction is flash matched, the flash *)
(* time is not NaN and 0 <= flash_time <= window, bounds included, with    *)
(* window 1.6 for flash_cut_bnb and 9.6 for flash_cut_numi; passing the    *)
(* BNB cut implies passing the NuMI cut, and a NaN time or an unmatched    *)
(* interaction always fails.                                               *)
C14_FlashCut ==
    /\ op.name = "flash_cut_bnb" =>
        /\ res = FlashPasses(inter, 1600)
        /\ res => flash_cut_numi(inter)
    /\ op.name = "flash_cut_numi" => res = FlashPasses(inter, 9600)
    /\ (op.name \in {"flash_cut_bnb", "flash_cut_numi"}
            /\ (inter.flash_time.nan \/ ~inter.is_flash_matched)) =>
        res = FALSE

C14_Witness ==
    /\ op.name = "flash_cut_bnb" /\ res = TRUE
    /\ inter.flash_time = Time(1600)

(* A vertex on a face of the exclusion box. *)
OnFace(v) ==
    v[1] = 210215 \/ v[2] = 60000 \/ v[3] = 290000 \/ v[3] = 390000

(* C15: fiducial_cut passes iff is_fiducial holds and the vertex is not in *)
(* the box x > 210.215, y > 60, 290 < z < 390 (bounds strict); it never    *)
(* passes with is_fiducial false, and a vertex on a face of the box is not *)
(* excluded.                                                               *)
C15_FiducialCut ==
    op.name = "fiducial_cut" =>
        /\ res = (/\ inter.is_fiducial
                  /\ ~(/\ inter.vertex[1] > 210215
                       /\ inter.vertex[2] > 60000
                       /\ 290000 < inter.vertex[3]
                       /\ inter.vertex[3] < 390000))
        /\ ~inter.is_fiducial => res = FALSE
        /\ (inter.is_fiducial /\ OnFace(inter.vertex)) => res = TRUE

C15_Witness ==
    /\ op.name = "fiducial_cut" /\ res = TRUE
    /\ inter.vertex = <<210216, 60001, 390000>>

(* The particles of the interaction that pass final_state_signal, by index. *)
Passing ==
    {k \in 1..Len(inter.particles) :
        final_state_signal(inter.variant, inter.particles[k])}

PassingOfType(t) == {k \in Passing : inter.particles[k].pid = t}

RECURSIVE SumOver(_, _)
SumOver(S, f) ==
    IF S = {} THEN 0
    ELSE LET x == CHOOSE y \in S : TRUE IN f[x] + SumOver(S \ {x}, f)

(* C12: topology_label is the five counts in the order photon, electron,   *)
(* muon, pion, proton with the separators ph, e, mu, pi, p (0,0,1,0,2      *)
(* gives 0ph0e1mu0pi2p); bucket t is the number of particles of type t     *)
(* that pass is_final_state_signal and the five counts sum to the number   *)
(* of passing particles.                                                   *)
C12_TopologyLabel ==
    /\ op.name = "topology" =>
        /\ res = ToString(Cardinality(PassingOfType(0))) \o "ph"
                    \o ToString(Cardinality(PassingOfType(1))) \o "e"
                    \o ToString(Cardinality(PassingOfType(2))) \o "mu"
                    \o ToString(Cardinality(PassingOfType(3))) \o "pi"
                    \o ToString(Cardinality(PassingOfType(4))) \o "p"
        /\ (/\ Cardinality(PassingOfType(0)) = 0
            /\ Cardinality(PassingOfType(1)) = 0
            /\ Cardinality(PassingOfType(2)) = 1
            /\ Cardinality(PassingOfType(3)) = 0
            /\ Cardinality(PassingOfType(4)) = 2) => res = "0ph0e1mu0pi2p"
    /\ op.name = "count_primaries" =>
        /\ DOMAIN res = 0..4
        /\ \A t \in 0..4 : res[t] = Cardinality(PassingOfType(t))
        /\ SumOver(0..4, res) = Cardinality(Passing)

C12_Witness ==
    /\ op.name = "topology" /\ res = "0ph0e1mu0pi2p"
    /\ inter.variant = "truth"

Variants == {"truth", "reco"}
OtherEnergies == {0, 25001, 143426}

(* The kinetic energy of the energy model: energy_deposit for Truth, and   *)
(* for Reconstructed calo_ke for type code < 2, csda_ke otherwise.         *)
KineticEnergy(T, p) ==
    IF T = "truth" THEN p.energy_deposit
    ELSE IF p.pid < 2 THEN p.calo_ke ELSE p.csda_ke

(* A particle of variant T2 with the type, primary flag and kinetic energy *)
(* of p in variant T; its two other energy fields hold j1 and j2.          *)
Twin(T, p, T2, j1, j2) ==
    LET e == KineticEnergy(T, p)
    IN IF T2 = "truth"
       THEN [p EXCEPT !.energy_deposit = e, !.calo_ke = j1, !.csda_ke = j2]
       ELSE IF p.pid < 2
       THEN [p EXCEPT !.calo_ke = e, !.csda_ke = j1, !.energy_deposit = j2]
       ELSE [p EXCEPT !.csda_ke = e, !.calo_ke = j1, !.energy_deposit = j2]

TwinInteraction(i, T2, j1, j2) ==
    [i EXCEPT !.variant = T2,
              !.particles = [k \in 1..Len(i.particles) |->
                                Twin(i.variant, i.particles[k], T2, j1, j2)]]

(* C13: a Truth particle and a Reconstructed particle of the same type and *)
(* primary flag whose kinetic energies (energy_deposit; calo_ke for type   *)
(* code < 2, csda_ke otherwise) are equal get the same result of           *)
(* is_final_state_signal, the same count bucket and the same term of       *)
(* visible_energy, whatever the fields that the rule does not select hold. *)
C13_VariantsAgree ==
    op.name \in {"final_state_signal", "count_primaries", "visible_energy"} =>
        \A T2 \in Variants, j1 \in OtherEnergies, j2 \in OtherEnergies :
            LET tw == TwinInteraction(inter, T2, j1, j2)
            IN /\ op.name = "final_state_signal" =>
                    res = final_state_signal(T2, tw.particles[op.arg])
               /\ op.name = "count_primaries" => res = count_primaries(tw)
               /\ op.name = "visible_energy" => res = visible_energy(tw)

C13_Witness ==
    /\ op.name = "final_state_signal" /\ res = TRUE
    /\ inter.variant = "reco" /\ inter.particles[op.arg].pid = 1
    /\ inter.particles[op.arg].calo_ke = 25001
    /\ inter.particles[op.arg].csda_ke = 25000
    /\ inter.particles[op.arg].energy_deposit = 25000

(* The list ps reordered by the permutation f of its indices. *)
Reordered(ps, f) == [k \in 1..Len(ps) |-> ps[f[k]]]

C18_LabelsConsistent ==
    op.name = "category" =>
        /\ res = 0 =>
            /\ category_topology(inter) = 2
            /\ category_interaction_mode(inter) # 7
        /\ ((\E g \in OobValues : all_1muNp_cut(inter, g))
                /\ inter.nu_id > -1) => res = 0

(* The SIGNAL rows due for the truth interactions from position t on. *)
RECURSIVE SignalRowsFrom(_)
SignalRowsFrom(t) ==
    IF t > Len(spill.dlp_true) THEN <<>>
    ELSE LET i == spill.dlp_true[t]
         IN (IF sigs[t] /\ Len(i.match_ids) > 0
             THEN << [tag |-> "SIGNAL", truth |-> t - 1,
                      reco |-> Head(i.match_ids)] >>
             ELSE <<>>) \o SignalRowsFrom(t + 1)

(* The SELECTED rows due for the reconstructed interactions from r on. *)
RECURSIVE SelectedRowsFrom(_)
SelectedRowsFrom(r) ==
    IF r > Len(spill.dlp) THEN <<>>
    ELSE LET i == spill.dlp[r]
         IN (IF sels[r] /\ Len(i.match_ids) > 0
             THEN << [tag |-> "SELECTED", truth |-> Head(i.match_ids),
                      reco |-> r - 1] >>
             ELSE <<>>) \o SelectedRowsFrom(r + 1)

====
